---- MODULE Spec2Model ----
(***************************************************************************)
(* Model of utils/automl_format/format_automl_new.py: the conversion of a  *)
(* dataset in AutoML format (train / valid / test matrices held by a       *)
(* DataManager D) into TFRecord files, metadata.textproto sidecars and a   *)
(* solution file, as driven by press_a_button_and_give_me_an_AutoDL_dataset*)
(*                                                                         *)
(* Numbers are integers (the label and feature values of the model are     *)
(* integral); np.median is kept exact by working with twice its value.     *)
(* A matrix is a record [sparse, shape1, rows]: `sparse` is its type       *)
(* (scipy.sparse or numpy), shape1 its number of columns and rows the      *)
(* sequence of its rows, each row a sequence of shape1 numbers.  A 1-D     *)
(* array (ndim = 1) keeps its numbers in `rows`.                           *)
(***************************************************************************)
EXTENDS Integers, Sequences, FiniteSets, TLC

\* ------------------------------------------------------------------ bounds
MaxTest == 2
MaxTrain == 1
MaxValid == 1
MaxLimit == 1
FlatWidth == 2
MaxLabels == 3

\* ------------------------------------------------------------ Python values
None == <<>>
Some(v) == <<v>>
IsNone(x) == x = <<>>
Val(x) == x[1]

\* Python truth value of an optional integer flag: None and 0 are falsy.
Truthy(x) == IF IsNone(x) THEN FALSE ELSE Val(x) # 0

Min2(a, b) == IF a <= b THEN a ELSE b

\* str() of a small non-negative integer, as a token of a file name.
Numerals == <<"0", "1", "2", "3", "4", "5", "6", "7", "8", "9">>
Str(n) == Numerals[n + 1]

RECURSIVE SumSeq(_)
SumSeq(s) == IF s = <<>> THEN 0 ELSE Head(s) + SumSeq(Tail(s))

RECURSIVE Concat(_)
Concat(ss) == IF ss = <<>> THEN <<>> ELSE Head(ss) \o Concat(Tail(ss))

NonZeroCount(row) == Cardinality({c \in DOMAIN row : row[c] # 0})

\* ------------------------------------------------------------------ matrices
Matrix(sp, w, rs) == [sparse |-> sp, ndim |-> 2, shape1 |-> w, rows |-> rs]
Vector(v) == [sparse |-> FALSE, ndim |-> 1, shape1 |-> 0, rows |-> v]

\* scipy.sparse.issparse
is_sparse(obj) == obj.sparse

\* ndarray.size is the number of elements; for a scipy.sparse matrix .size is
\* the number of stored (non-zero) entries.
MatrixSize(m) ==
  IF m.sparse THEN SumSeq([i \in DOMAIN m.rows |-> NonZeroCount(m.rows[i])])
  ELSE IF m.ndim = 1 THEN Len(m.rows)
  ELSE Len(m.rows) * m.shape1

\* np.concatenate / scipy.sparse.vstack of two matrices: the rows of the first,
\* then the rows of the second.
concat(a, b) == [a EXCEPT !.rows = a.rows \o b.rows]

\* --------------------------------------------------------- label normalizer
\* Insertion of v into an ascending sequence, and the sort np.median performs.
RECURSIVE Insert(_, _)
Insert(v, s) ==
  IF s = <<>> THEN <<v>>
  ELSE IF v <= Head(s) THEN <<v>> \o s
  ELSE <<Head(s)>> \o Insert(v, Tail(s))

RECURSIVE SortAsc(_)
SortAsc(s) == IF s = <<>> THEN <<>> ELSE Insert(Head(s), SortAsc(Tail(s)))

\* Twice np.median(s): the middle element of the sorted vector counted twice,
\* or the sum of the two middle elements.  (np.median of an empty vector is
\* nan; no label is then compared with it.)
Median2(s) ==
  LET t == SortAsc(s)
      n == Len(s)
  IN IF n = 0 THEN 0
     ELSE IF n % 2 = 1 THEN 2 * t[(n + 1) \div 2]
     ELSE t[n \div 2] + t[n \div 2 + 1]

\* np.stack([1 - binary_label, binary_label], axis=1)
binary_to_multilabel(binary_label) ==
  Matrix(FALSE, 2,
         [i \in DOMAIN binary_label.rows |->
            <<1 - binary_label.rows[i], binary_label.rows[i]>>])

\* The binarisation with >= in place of >.
regression_to_multilabel_geq(regression_label) ==
  LET threshold2 == Median2(regression_label.rows)
      binary_label == [i \in DOMAIN regression_label.rows |->
                         IF 2 * regression_label.rows[i] >= threshold2 THEN 1 ELSE 0]
  IN binary_to_multilabel(Vector(binary_label))

\* (regression_label > threshold) is a boolean vector; 1 - it and the stack
\* make it 0 / 1.
regression_to_multilabel(regression_label) ==
  LET threshold2 == Median2(regression_label.rows)
      binary_label == [i \in DOMAIN regression_label.rows |->
                         IF 2 * regression_label.rows[i] > threshold2 THEN 1 ELSE 0]
  IN binary_to_multilabel(Vector(binary_label))

NormalizeLabels(task, labels) ==
  IF task = "regression" THEN regression_to_multilabel(labels)
  ELSE IF task = "binary.classification" THEN binary_to_multilabel(labels)
  ELSE labels

\* ------------------------------------------------------------ metadata
AutoMLMetadata(dataset_name, sample_count, set_type, output_dim, sequence_size, row_count, col_count, num_channels) ==
  [dataset_name |-> dataset_name, sample_count |-> sample_count,
   output_dim |-> output_dim, set_type |-> set_type,
   col_count |-> col_count, row_count |-> row_count,
   sequence_size |-> sequence_size, num_channels |-> num_channels]

NoArray == Matrix(FALSE, 0, <<>>)
NoMetadata == AutoMLMetadata("", 0, "train", 0, 0, 0, 0, 0)

\* The train split: validation rows are appended to the training rows when
\* X_valid.size is non-zero, else the training matrices are used as they are.
TrainFeatures(data) ==
  IF MatrixSize(data.X_valid) # 0 THEN concat(data.X_train, data.X_valid)
  ELSE data.X_train

TrainLabels(data) ==
  IF MatrixSize(data.X_valid) # 0 THEN concat(data.Y_train, data.Y_valid)
  ELSE data.Y_train

\* The shape flags after the default is applied: all four unset gives
\* (1, 1, features.shape[1], 1); otherwise they stay as given.
ResolveShape(sequence_size, row_count, col_count, num_channels, width) ==
  IF IsNone(sequence_size) /\ IsNone(row_count) /\ IsNone(col_count)
       /\ IsNone(num_channels)
  THEN [sequence_size |-> Some(1), row_count |-> Some(1),
        col_count |-> Some(width), num_channels |-> Some(1)]
  ELSE [sequence_size |-> sequence_size, row_count |-> row_count,
        col_count |-> col_count, num_channels |-> num_channels]

\* Multiplying the four components raises (TypeError, reported as ValueError)
\* as soon as one of them is None.
ShapeHasNone(sh) ==
  IsNone(sh.sequence_size) \/ IsNone(sh.row_count) \/ IsNone(sh.col_count)
    \/ IsNone(sh.num_channels)

\* The product without the sequence_size factor.
NumEntries_without_sequence(sh) ==
  Val(sh.row_count) * Val(sh.col_count) * Val(sh.num_channels)

NumEntries(sh) ==
  Val(sh.sequence_size) * Val(sh.row_count) * Val(sh.col_count)
    * Val(sh.num_channels)

\* _prepare_metadata_features_and_labels: `raised` is "" on a normal return.
prepare_metadata_features_and_labels(Dm, set_type, sequence_size, row_count, col_count, num_channels) ==
  LET task == Dm.info.task
      features == IF set_type = "train" THEN TrainFeatures(Dm.data)
                  ELSE Dm.data.X_test
      raw == IF set_type = "train" THEN TrainLabels(Dm.data)
             ELSE Dm.data.Y_test
      labels == NormalizeLabels(task, raw)
      sh == ResolveShape(sequence_size, row_count, col_count, num_channels,
                         features.shape1)
      failed == [raised |-> "ValueError", metadata |-> NoMetadata,
                 features |-> NoArray, labels |-> NoArray]
  IN IF ShapeHasNone(sh) THEN failed
     ELSE IF features.shape1 # NumEntries(sh) THEN failed
     ELSE [raised |-> "",
           metadata |-> AutoMLMetadata(Dm.info.name, Len(features.rows),
                                       set_type, labels.shape1,
                                       Val(sh.sequence_size), Val(sh.row_count),
                                       Val(sh.col_count), Val(sh.num_channels)),
           features |-> features,
           labels |-> labels]

\* ------------------------------------------------------------ record encoder
\* The columns of the stored (non-zero) entries of a CSR row, ascending.
RECURSIVE NonZeroColumns(_, _)
NonZeroColumns(row, c) ==
  IF c > Len(row) THEN <<>>
  ELSE (IF row[c] # 0 THEN <<c - 1>> ELSE <<>>) \o NonZeroColumns(row, c + 1)

csr_feature_vector_to_lists(sparse_feature_vector) ==
  LET sparse_col_index == NonZeroColumns(sparse_feature_vector, 1)
  IN [sparse_col_index |-> sparse_col_index,
      sparse_row_index |-> [k \in DOMAIN sparse_col_index |-> 0],
      sparse_value |-> [k \in DOMAIN sparse_col_index |->
                          sparse_feature_vector[sparse_col_index[k] + 1]]]

\* The sparse label with every kept score replaced by 1.
dense_to_sparse_label_unit_scores(dense_label) ==
  LET label_indexes == NonZeroColumns(dense_label, 1)
  IN [label_indexes |-> label_indexes,
      label_scores |-> [k \in DOMAIN label_indexes |-> 1]]

\* enumerate(dense_label), keeping the index and value of every truthy entry.
dense_to_sparse_label(dense_label) ==
  LET label_indexes == NonZeroColumns(dense_label, 1)
  IN [label_indexes |-> label_indexes,
      label_scores |-> [k \in DOMAIN label_indexes |->
                          dense_label[label_indexes[k] + 1]]]

\* np.reshape(feature_row, (sequence_size, -1)): sequence_size contiguous frames.
ReshapeFrames(feature_row, sequence_size) ==
  LET frame_len == Len(feature_row) \div sequence_size
  IN [f \in 1..sequence_size |->
        SubSeq(feature_row, (f - 1) * frame_len + 1, f * frame_len)]

\* One SequenceExample: the context and the feature lists of one row.
SequenceExample(feature_row, label_row, counter, id_translation, is_test_set, has_sparse_features, sequence_size) ==
  LET sl == dense_to_sparse_label(label_row)
      context == [id |-> counter + id_translation,
                  label_index |-> IF is_test_set THEN <<>> ELSE sl.label_indexes,
                  label_score |-> IF is_test_set THEN <<>> ELSE sl.label_scores]
      feature_lists ==
        IF has_sparse_features
        THEN LET l == csr_feature_vector_to_lists(feature_row)
             IN [sparse_col_index |-> <<l.sparse_col_index>>,
                 sparse_row_index |-> <<l.sparse_row_index>>,
                 sparse_value |-> <<l.sparse_value>>]
        ELSE IF sequence_size = 1 THEN [dense_input |-> <<feature_row>>]
        ELSE [dense_input |-> ReshapeFrames(feature_row, sequence_size)]
  IN [context |-> context, feature_lists |-> feature_lists]

\* ------------------------------------------------------------ file system
\* A path is <<directory, file name>>, the file name a sequence of tokens; the
\* file system maps the paths of the existing files to their contents.
Path(dir, name) == <<dir, name>>
dirname(filepath) == filepath[1]
Exists(fsys, path) == path \in DOMAIN fsys
WriteFile(fsys, path, content) == (path :> content) @@ fsys
RemoveFile(fsys, path) == [q \in DOMAIN fsys \ {path} |-> fsys[q]]

\* '%.1f' of a number of the model (an integer): its units and a tenths digit 0.
Fmt1f(v) == [units |-> v, tenths |-> 0]

\* np.savetxt(solution_path, labels, fmt='%.1f'): one line per row.
SolutionLines(labels) ==
  [i \in DOMAIN labels.rows |->
     [c \in DOMAIN labels.rows[i] |-> Fmt1f(labels.rows[i][c])]]

\* ------------------------------------------------------------ dataset writer
\* The sidecar with the format flag not taken from D_info: always DENSE.
_write_metadata_textproto_always_dense(fsys, counter, metadata, D_info, filepath) ==
  WriteFile(fsys, Path(dirname(filepath), <<"metadata.textproto">>),
            [is_sequence |-> FALSE,
             sample_count |-> counter,
             sequence_size |-> metadata.sequence_size,
             output_dim |-> metadata.output_dim,
             col_count |-> metadata.col_count,
             row_count |-> metadata.row_count,
             num_channels |-> metadata.num_channels,
             format |-> "DENSE"])

_write_metadata_textproto(fsys, counter, metadata, D_info, filepath) ==
  WriteFile(fsys, Path(dirname(filepath), <<"metadata.textproto">>),
            [is_sequence |-> FALSE,
             sample_count |-> counter,
             sequence_size |-> metadata.sequence_size,
             output_dim |-> metadata.output_dim,
             col_count |-> metadata.col_count,
             row_count |-> metadata.row_count,
             num_channels |-> metadata.num_channels,
             format |-> IF D_info.format = "dense" THEN "DENSE" ELSE "SPARSE"])

\* The loop with the limit tested as counter > max_num_examples.
RECURSIVE EncodeLoop_late_break(_, _, _, _, _, _)
EncodeLoop_late_break(metadata, features, labels, id_translation, max_num_examples, written) ==
  LET counter == Len(written)
  IN IF counter >= Min2(Len(features.rows), Len(labels.rows))
     THEN [raised |-> "", records |-> written]
     ELSE IF is_sparse(features) /\ metadata.sequence_size # 1
     THEN [raised |-> "NotImplementedError", records |-> written]
     ELSE LET example == SequenceExample(features.rows[counter + 1],
                                         labels.rows[counter + 1], counter,
                                         id_translation,
                                         metadata.set_type = "test",
                                         is_sparse(features),
                                         metadata.sequence_size)
              out == Append(written, example)
          IN IF Truthy(max_num_examples) /\ Len(out) > Val(max_num_examples)
             THEN [raised |-> "", records |-> out]
             ELSE EncodeLoop_late_break(metadata, features, labels, id_translation,
                                        max_num_examples, out)

\* The encoding loop over zip(features, labels), from `counter` rows written:
\* what the record file holds when the loop ends, and whether it ended by
\* raising NotImplementedError.
RECURSIVE EncodeLoop(_, _, _, _, _, _)
EncodeLoop(metadata, features, labels, id_translation, max_num_examples, written) ==
  LET counter == Len(written)
  IN IF counter >= Min2(Len(features.rows), Len(labels.rows))
     THEN [raised |-> "", records |-> written]
     ELSE IF is_sparse(features) /\ metadata.sequence_size # 1
     THEN [raised |-> "NotImplementedError", records |-> written]
     ELSE LET example == SequenceExample(features.rows[counter + 1],
                                         labels.rows[counter + 1], counter,
                                         id_translation,
                                         metadata.set_type = "test",
                                         is_sparse(features),
                                         metadata.sequence_size)
              out == Append(written, example)
          IN IF Truthy(max_num_examples) /\ Len(out) >= Val(max_num_examples)
             THEN [raised |-> "", records |-> out]
             ELSE EncodeLoop(metadata, features, labels, id_translation,
                             max_num_examples, out)

\* The offset added to the row counter to make a record's id: 0 for the test
\* split, D_info['test_num'] for the train split.
id_translation_zero(is_test_set, D_info) == 0
id_translation_of(is_test_set, D_info) == IF is_test_set THEN 0 ELSE D_info.test_num

\* convert_vectors_to_sequence_example: the file system it leaves and the
\* exception it raised ("" on a normal return).
convert_vectors_to_sequence_example(fsys, filepath, metadata, features, labels, D_info, max_num_examples) ==
  LET is_test_set == metadata.set_type = "test"
      solution_path == Path(dirname(filepath), <<metadata.dataset_name, ".solution">>)
      fs1 == IF is_test_set
             THEN WriteFile(fsys, solution_path, SolutionLines(labels))
             ELSE fsys
      id_translation == id_translation_of(is_test_set, D_info)
      loop == EncodeLoop(metadata, features, labels, id_translation,
                         max_num_examples, <<>>)
      fs2 == WriteFile(fs1, filepath, loop.records)
  IN IF loop.raised # "" THEN [raised |-> loop.raised, fs |-> fs2]
     ELSE [raised |-> "",
           fs |-> _write_metadata_textproto(fs2, Len(loop.records), metadata,
                                            D_info, filepath)]

\* ------------------------------------------------------------ inputs
\* The dataset_name argument, and the names D.info['name'] may hold (the
\* docstring warns that it can differ from dataset_name).
dataset_name == "nova"
InfoNames == {dataset_name, "nova_wc"}
Tasks == {"regression", "binary.classification", "multilabel.classification"}
InfoFileTypes == <<"_public", "_private">>

\* Row i of the split with tag `tag` (1 train, 2 valid, 3 test): rows differ
\* from one another and hold zero and non-zero entries.
FeatureRow(tag, i) ==
  [c \in 1..FlatWidth |-> IF c = 1 THEN 10 * tag + i ELSE (i + c) % 2]
ZeroRow == [c \in 1..FlatWidth |-> 0]

FeatureMatrix(sp, tag, n) == Matrix(sp, FlatWidth, [i \in 1..n |-> FeatureRow(tag, i)])
ZeroMatrix(sp, n) == Matrix(sp, FlatWidth, [i \in 1..n |-> ZeroRow])

\* The label of row i of a split: a 0/1 label, a real value, or a row of
\* class scores.
LabelArray(task, tag, n) ==
  IF task = "binary.classification" THEN Vector([i \in 1..n |-> (tag + i) % 2])
  ELSE IF task = "regression" THEN Vector([i \in 1..n |-> (tag * i) % 4])
  ELSE Matrix(FALSE, 2, [i \in 1..n |-> <<(tag + i) % 3, 2 * ((tag * i) % 2)>>])

\* The DataManager of a dataset: info['test_num'] is the number of test
\* examples of the dataset.
DataManager(sp, task, name, nTrain, xValid, nTest) ==
  [info |-> [format |-> IF sp THEN "sparse" ELSE "dense",
             task |-> task, name |-> name, test_num |-> nTest],
   data |-> [X_train |-> FeatureMatrix(sp, 1, nTrain),
             Y_train |-> LabelArray(task, 1, nTrain),
             X_valid |-> xValid,
             Y_valid |-> LabelArray(task, 2, Len(xValid.rows)),
             X_test |-> FeatureMatrix(sp, 3, nTest),
             Y_test |-> LabelArray(task, 3, nTest)]]

ValidMatrices(sp) ==
  {FeatureMatrix(sp, 2, n) : n \in 0..MaxValid}
    \cup {ZeroMatrix(sp, n) : n \in 1..MaxValid}

DatasetsOf(sp) ==
  {DataManager(sp, task, name, nTrain, xValid, nTest) :
     task \in Tasks, name \in InfoNames, nTrain \in 0..MaxTrain,
     xValid \in ValidMatrices(sp), nTest \in 0..MaxTest}

Datasets == DatasetsOf(FALSE) \cup DatasetsOf(TRUE)

\* The shape flags: all four unset; all four set (to 1 or the flat width); or
\* all but one set.
ShapeFlag(s, r, c, n) == [sequence_size |-> s, row_count |-> r, col_count |-> c, num_channels |-> n]
FullShapes ==
  {ShapeFlag(Some(s), Some(1), Some(c), Some(1)) : s \in {1, FlatWidth}, c \in {1, FlatWidth}}
PartialShapes ==
  {ShapeFlag(None, Some(1), Some(FlatWidth), Some(1)),
   ShapeFlag(Some(1), None, Some(FlatWidth), Some(1)),
   ShapeFlag(Some(1), Some(1), None, Some(1)),
   ShapeFlag(Some(1), Some(1), Some(FlatWidth), None)}
ShapeFlags == {ShapeFlag(None, None, None, None)} \cup FullShapes \cup PartialShapes

Limits == {None} \cup {Some(k) : k \in 0..MaxLimit}

\* The info files of the source dataset directory.
InfoPath(dir, name, info_file_type) == Path(dir, <<name, info_file_type, ".info">>)
SourceDirs ==
  {[q \in {InfoPath("input_dir", dataset_name, t) : t \in present} |-> "info"] :
     present \in SUBSET {InfoFileTypes[k] : k \in DOMAIN InfoFileTypes}}

\* ------------------------------------------------------------ state
VARIABLES
  D,            \* the DataManager of the dataset
  FLAGS,        \* sequence_size, row_count, col_count, num_channels
  max_num_examples_train,
  max_num_examples_test,
  pc,           \* the orchestrator's position
  raised,       \* the exception that ended the run, "" if none
  metadata, features, labels,   \* the orchestrator's locals
  fs,           \* the files on disk
  dirs          \* the directories created

vars == <<D, FLAGS, max_num_examples_train, max_num_examples_test, pc, raised,
          metadata, features, labels, fs, dirs>>

inputs == <<D, FLAGS, max_num_examples_train, max_num_examples_test>>

\* new_dataset_name: the dataset name with '_' + str(limit) for each truthy limit.
new_dataset_name ==
  <<dataset_name>>
    \o (IF Truthy(max_num_examples_train)
        THEN <<"_", Str(Val(max_num_examples_train))>> ELSE <<>>)
    \o (IF Truthy(max_num_examples_test)
        THEN <<"_", Str(Val(max_num_examples_test))>> ELSE <<>>)

RecordPath(set_type) == Path(set_type, <<"sample-", dataset_name, "-", set_type, ".tfrecord">>)
SidecarPath(set_type) == Path(set_type, <<"metadata.textproto">>)

Init ==
  /\ D \in Datasets
  /\ FLAGS \in ShapeFlags
  /\ max_num_examples_train \in Limits
  /\ max_num_examples_test \in Limits
  /\ fs \in SourceDirs
  /\ pc = "format_test"
  /\ raised = ""
  /\ metadata = NoMetadata
  /\ features = NoArray
  /\ labels = NoArray
  /\ dirs = {}

\* ------------------------------------------------------------ orchestrator
\* Lines up to the first _prepare call: the output directories are made, then
\* the test split is prepared.
Prepare(set_type, next_pc) ==
  LET r == prepare_metadata_features_and_labels(D, set_type, FLAGS.sequence_size,
             FLAGS.row_count, FLAGS.col_count, FLAGS.num_channels)
  IN /\ dirs' = dirs \cup {"dataset_dir", "dataset_data_dir", set_type}
     /\ raised' = r.raised
     /\ pc' = IF r.raised # "" THEN "raised" ELSE next_pc
     /\ metadata' = r.metadata
     /\ features' = r.features
     /\ labels' = r.labels
     /\ UNCHANGED <<inputs, fs>>

Convert(set_type, max_num_examples, next_pc) ==
  LET r == convert_vectors_to_sequence_example(fs, RecordPath(set_type), metadata,
             features, labels, D.info, max_num_examples)
  IN /\ fs' = r.fs
     /\ raised' = r.raised
     /\ pc' = IF r.raised # "" THEN "raised" ELSE next_pc
     /\ UNCHANGED <<inputs, metadata, features, labels, dirs>>

PrepareTest == pc = "format_test" /\ Prepare("test", "convert_test")
ConvertTest == pc = "convert_test" /\ Convert("test", max_num_examples_test, "format_train")
PrepareTrain == pc = "format_train" /\ Prepare("train", "convert_train")
ConvertTrain == pc = "convert_train" /\ Convert("train", max_num_examples_train, "move_solution")

\* os.rename: raises when the source does not exist; otherwise the file is at
\* the new path only.
LogPath == Path(".", <<"log.txt">>)
AppendLog(fsys, line) ==
  WriteFile(fsys, LogPath,
            (IF Exists(fsys, LogPath) THEN fsys[LogPath] ELSE <<>>) \o <<line>>)

\* The relocation without its try / except: a failing os.rename ends the run.
MoveSolution_uncaught ==
  LET solution_filepath == Path("test", <<dataset_name, ".solution">>)
      new_solution_filepath == Path("dataset_dir", new_dataset_name \o <<".solution">>)
  IN /\ pc = "move_solution"
     /\ fs' = IF Exists(fs, solution_filepath)
              THEN WriteFile(RemoveFile(fs, solution_filepath),
                             new_solution_filepath, fs[solution_filepath])
              ELSE fs
     /\ pc' = IF Exists(fs, solution_filepath) THEN "copy_info" ELSE "raised"
     /\ raised' = IF Exists(fs, solution_filepath) THEN "" ELSE "OSError"
     /\ UNCHANGED <<inputs, metadata, features, labels, dirs>>

MoveSolution ==
  LET solution_filepath == Path("test", <<dataset_name, ".solution">>)
      new_solution_filepath == Path("dataset_dir", new_dataset_name \o <<".solution">>)
  IN /\ pc = "move_solution"
     /\ fs' = IF Exists(fs, solution_filepath)
              THEN WriteFile(RemoveFile(fs, solution_filepath),
                             new_solution_filepath, fs[solution_filepath])
              ELSE AppendLog(fs, <<"Solution file not moved: ", dataset_name>>)
     /\ pc' = "copy_info"
     /\ UNCHANGED <<inputs, raised, metadata, features, labels, dirs>>

\* The copy loop inside one try block: the info files are copied in order and
\* the first copyfile that raises ends the loop.
RECURSIVE CopyLoop(_, _)
CopyLoop(fsys, k) ==
  IF k > Len(InfoFileTypes) THEN fsys
  ELSE LET info_filepath == InfoPath("input_dir", dataset_name, InfoFileTypes[k])
           new_info_filepath ==
             Path("dataset_dir", new_dataset_name \o <<InfoFileTypes[k], ".info">>)
       IN IF ~Exists(fsys, info_filepath) THEN fsys
          ELSE CopyLoop(WriteFile(fsys, new_info_filepath, fsys[info_filepath]), k + 1)

CopyInfoFiles ==
  /\ pc = "copy_info"
  /\ fs' = CopyLoop(fs, 1)
  /\ pc' = "done"
  /\ UNCHANGED <<inputs, raised, metadata, features, labels, dirs>>

Next ==
  \/ PrepareTest
  \/ ConvertTest
  \/ PrepareTrain
  \/ ConvertTrain
  \/ MoveSolution
  \/ CopyInfoFiles

Spec == Init /\ [][Next]_vars

\* ------------------------------------------------------------ observations
Records(set_type) == fs[RecordPath(set_type)]
Sidecar(set_type) == fs[SidecarPath(set_type)]
Ids(recs) == [i \in DOMAIN recs |-> recs[i].context.id]
BothSplitsWritten == pc \in {"move_solution", "copy_info", "done"}

\* The feature row a record's payload stands for: the frames of dense_input
\* laid end to end, or the row whose stored entries the sparse lists give.
DecodedRow(rec, width) ==
  IF "dense_input" \in DOMAIN rec.feature_lists
  THEN Concat(rec.feature_lists.dense_input)
  ELSE LET cols == rec.feature_lists.sparse_col_index[1]
           vals == rec.feature_lists.sparse_value[1]
       IN [c \in 1..width |->
             IF \E k \in DOMAIN cols : cols[k] = c - 1
             THEN vals[CHOOSE k \in DOMAIN cols : cols[k] = c - 1]
             ELSE 0]

JustConverted == pc \in {"format_train", "move_solution"}
ConvertedSplit == IF pc = "format_train" THEN "test" ELSE "train"
ConvertedLimit ==
  IF pc = "format_train" THEN max_num_examples_test ELSE max_num_examples_train

FirstRowsWritten(recs, k) ==
  /\ Len(recs) = k
  /\ \A i \in 1..k : DecodedRow(recs[i], features.shape1) = features.rows[i]
  /\ Sidecar(ConvertedSplit).sample_count = k

\* C2 (as stated): with a limit k, 0 <= k < row_count, exactly the first k rows
\* are written and sample_count is k; with no limit all rows are written and
\* sample_count is row_count.
C2_Original ==
  JustConverted =>
    LET n == Len(features.rows)
        recs == Records(ConvertedSplit)
    IN /\ (~IsNone(ConvertedLimit) /\ Val(ConvertedLimit) < n)
            => FirstRowsWritten(recs, Val(ConvertedLimit))
       /\ IsNone(ConvertedLimit) => FirstRowsWritten(recs, n)

\* C2 (amended): with a limit k, 1 <= k < row_count, exactly the first k rows
\* are written, in order, and sample_count is k; with no limit, or with the
\* limit 0, all row_count rows are written and sample_count is row_count.
C2_Truncation ==
  JustConverted =>
    LET n == Len(features.rows)
        recs == Records(ConvertedSplit)
    IN /\ (Truthy(ConvertedLimit) /\ Val(ConvertedLimit) < n)
            => FirstRowsWritten(recs, Val(ConvertedLimit))
       /\ ~Truthy(ConvertedLimit) => FirstRowsWritten(recs, n)

\* A split of two rows or more cut down to a limit of one or more.
C2_Witness ==
  /\ JustConverted
  /\ Truthy(ConvertedLimit)
  /\ Val(ConvertedLimit) < Len(features.rows)
  /\ Len(Records(ConvertedSplit)) = Val(ConvertedLimit)

\* ------------------------------------------------------------ C3
\* The files of a split's directory.
FilesIn(dir) == {q \in DOMAIN fs : dirname(q) = dir}

\* A conversion of a sparse split with sequence_size # 1 has been attempted:
\* the locals hold that split and the orchestrator has left its convert step.
SparseSequenceConverted ==
  /\ pc \in {"format_train", "move_solution", "raised"}
  /\ is_sparse(features)
  /\ metadata.sequence_size # 1

\* C3 (as stated): converting a sparse split with sequence_size # 1, of any
\* number of rows, raises, and when it raises no solution file, record file
\* or sidecar of that split has been created.
C3_Original ==
  SparseSequenceConverted =>
    /\ raised = "NotImplementedError"
    /\ FilesIn(metadata.set_type) = {}

\* ------------------------------------------------------------ C4
AllUnset(f) ==
  IsNone(f.sequence_size) /\ IsNone(f.row_count) /\ IsNone(f.col_count)
    /\ IsNone(f.num_channels)
AllSet(f) ==
  ~IsNone(f.sequence_size) /\ ~IsNone(f.row_count) /\ ~IsNone(f.col_count)
    /\ ~IsNone(f.num_channels)
FlagProduct(f) ==
  Val(f.sequence_size) * Val(f.row_count) * Val(f.col_count) * Val(f.num_channels)
ShapeAccepted(f, width) == AllUnset(f) \/ (AllSet(f) /\ FlagProduct(f) = width)

\* C4: a record file of a split exists only if the shape flags are all unset
\* or all set with product equal to the flat width; the shape a split is
\* converted with has product equal to its flat width and is (1, 1, width, 1)
\* when the flags are all unset; with any other flags the run ends in
\* _prepare's ValueError for the test split and no record file exists.
C4_ShapeGate ==
  /\ \A s \in {"test", "train"} :
       RecordPath(s) \in DOMAIN fs => ShapeAccepted(FLAGS, D.data.X_test.shape1)
  /\ pc \in {"convert_test", "convert_train"} =>
       /\ metadata.sequence_size * metadata.row_count * metadata.col_count
            * metadata.num_channels = features.shape1
       /\ AllUnset(FLAGS) =>
            /\ metadata.sequence_size = 1
            /\ metadata.row_count = 1
            /\ metadata.col_count = features.shape1
            /\ metadata.num_channels = 1
  /\ ~ShapeAccepted(FLAGS, D.data.X_test.shape1) =>
       /\ pc = "format_test" \/ (pc = "raised" /\ raised = "ValueError")
       /\ \A s \in {"test", "train"} : RecordPath(s) \notin DOMAIN fs

\* Both splits written with the default shape.
C4_Witness ==
  /\ pc = "done"
  /\ AllUnset(FLAGS)
  /\ Len(Records("train")) >= 1
  /\ Sidecar("train").col_count = FlatWidth
  /\ Sidecar("train").sequence_size = 1

\* ------------------------------------------------------------ C5
\* C5 (as stated): when the train split has been prepared and X_valid has at
\* least one row, features are the training rows followed by the validation
\* rows, labels the normalised training labels followed by the validation
\* labels, and sample_count is the sum of the two row counts; with no
\* validation row the training matrices are used as they are.
C5_Original ==
  pc = "convert_train" =>
    LET dt == D.data
    IN /\ Len(dt.X_valid.rows) >= 1 =>
            /\ features.rows = dt.X_train.rows \o dt.X_valid.rows
            /\ labels.rows =
                 NormalizeLabels(D.info.task,
                                 [dt.Y_train EXCEPT !.rows = @ \o dt.Y_valid.rows]).rows
            /\ Len(features.rows) = Len(labels.rows)
            /\ metadata.sample_count = Len(dt.X_train.rows) + Len(dt.X_valid.rows)
       /\ Len(dt.X_valid.rows) = 0 =>
            /\ features = dt.X_train
            /\ labels = NormalizeLabels(D.info.task, dt.Y_train)

\* ------------------------------------------------------------ C6
\* Label vectors and label matrices of every content, for the test split of
\* an otherwise plain dense dataset.
SeqsUpTo(S, n) == UNION {[1..k -> S] : k \in 0..n}

LabelArrays(task) ==
  IF task = "binary.classification" THEN {Vector(v) : v \in SeqsUpTo(0..1, MaxLabels)}
  ELSE IF task = "regression" THEN {Vector(v) : v \in SeqsUpTo(0..2, MaxLabels)}
  ELSE {Matrix(FALSE, 2, m) : m \in SeqsUpTo({<<0, 0>>, <<0, 3>>, <<2, 1>>}, MaxLabels)}

LabelDatasetsOf(task) ==
  {[DataManager(FALSE, task, dataset_name, 0, FeatureMatrix(FALSE, 2, 0), Len(y.rows))
      EXCEPT !.data.Y_test = y] : y \in LabelArrays(task)}

InitLabels ==
  /\ D \in UNION {LabelDatasetsOf(task) : task \in Tasks}
  /\ FLAGS = ShapeFlag(None, None, None, None)
  /\ max_num_examples_train = None
  /\ max_num_examples_test = None
  /\ fs \in SourceDirs
  /\ pc = "format_test"
  /\ raised = ""
  /\ metadata = NoMetadata
  /\ features = NoArray
  /\ labels = NoArray
  /\ dirs = {}

SpecLabels == InitLabels /\ [][Next]_vars

\* The k-th smallest number of a non-empty vector, by counting.
KthSmallest(v, k) ==
  CHOOSE x \in {v[j] : j \in DOMAIN v} :
    /\ Cardinality({j \in DOMAIN v : v[j] < x}) < k
    /\ Cardinality({j \in DOMAIN v : v[j] <= x}) >= k

\* Whether x is strictly greater than the median of v: the middle number, or
\* the mean of the two middle numbers.
AboveMedian(x, v) ==
  2 * x > KthSmallest(v, (Len(v) + 1) \div 2) + KthSmallest(v, Len(v) \div 2 + 1)

\* C6: the labels of a prepared split are, for 'binary.classification', the
\* rows [1-b, b] with b the 0/1 label; for 'regression', the rows [1-b, b]
\* with b = 1 iff the label is strictly above the median of the split's labels
\* (a label equal to the median gives [1, 0]); in both cases exactly one column
\* is 1; for any other task, the label matrix unchanged.
C6_LabelNormalization ==
  pc = "convert_test" =>
    LET raw == D.data.Y_test
    IN IF D.info.task = "binary.classification"
       THEN /\ Len(labels.rows) = Len(raw.rows)
            /\ \A i \in DOMAIN raw.rows :
                 /\ labels.rows[i] = <<1 - raw.rows[i], raw.rows[i]>>
                 /\ Cardinality({c \in 1..2 : labels.rows[i][c] = 1}) = 1
       ELSE IF D.info.task = "regression"
       THEN /\ Len(labels.rows) = Len(raw.rows)
            /\ \A i \in DOMAIN raw.rows :
                 /\ labels.rows[i] =
                      (IF AboveMedian(raw.rows[i], raw.rows) THEN <<0, 1>> ELSE <<1, 0>>)
                 /\ Cardinality({c \in 1..2 : labels.rows[i][c] = 1}) = 1
       ELSE labels = raw

\* A regression split with a label equal to the median and a label above it.
C6_Witness ==
  /\ pc = "convert_test"
  /\ D.info.task = "regression"
  /\ \E i \in DOMAIN labels.rows :
       /\ 2 * D.data.Y_test.rows[i] = Median2(D.data.Y_test.rows)
       /\ labels.rows[i] = <<1, 0>>
  /\ \E i \in DOMAIN labels.rows : labels.rows[i] = <<0, 1>>

\* ------------------------------------------------------------ C7
\* The solution files on disk, wherever they are.
SolutionPaths == {q \in DOMAIN fs : q[2][Len(q[2])] = ".solution"}
TestSolutionPath == Path("test", <<D.info.name, ".solution">>)

StrictlyAscending(s) == \A j, k \in DOMAIN s : j < k => s[j] < s[k]

\* C7: every test record has empty label_index and label_score; once the test
\* split is written, and already when its encoding loop raises, its solution
\* file holds one line per row of the whole normalised test label matrix, in
\* row order, whatever the limit; writing the
\* train split writes no solution file, and each train record's label_index
\* lists the non-zero label columns of its row in ascending order, label_score
\* their values in the same order.
C7_LabelsAndSolution ==
  /\ RecordPath("test") \in DOMAIN fs =>
       \A i \in DOMAIN Records("test") :
         /\ Records("test")[i].context.label_index = <<>>
         /\ Records("test")[i].context.label_score = <<>>
  /\ (\/ pc \in {"format_train", "convert_train", "move_solution"}
      \/ (raised = "NotImplementedError" /\ metadata.set_type = "test")) =>
       LET full == NormalizeLabels(D.info.task, D.data.Y_test).rows
           lines == fs[TestSolutionPath]
       IN /\ TestSolutionPath \in DOMAIN fs
          /\ Len(lines) = Len(D.data.X_test.rows)
          /\ \A i \in DOMAIN lines : \A c \in DOMAIN lines[i] :
               lines[i][c] = [units |-> full[i][c], tenths |-> 0]
          /\ \A i \in DOMAIN lines : Len(lines[i]) = Len(full[i])
  /\ pc = "move_solution" =>
       /\ SolutionPaths = {TestSolutionPath}
       /\ \A i \in DOMAIN Records("train") :
            LET ctx == Records("train")[i].context
                row == labels.rows[i]
            IN /\ StrictlyAscending(ctx.label_index)
               /\ {ctx.label_index[k] : k \in DOMAIN ctx.label_index}
                    = {c - 1 : c \in {c \in DOMAIN row : row[c] # 0}}
               /\ Len(ctx.label_score) = Len(ctx.label_index)
               /\ \A k \in DOMAIN ctx.label_index :
                    ctx.label_score[k] = row[ctx.label_index[k] + 1]

\* A truncated test split with its whole solution, and a train record with
\* two active labels.
C7_Witness ==
  /\ pc = "move_solution"
  /\ Len(Records("test")) >= 1
  /\ Len(Records("test")) < Len(fs[TestSolutionPath])
  /\ \E i \in DOMAIN Records("train") : Len(Records("train")[i].context.label_index) = 2

\* ------------------------------------------------------------ C8
SplitWritten(set_type) ==
  RecordPath(set_type) \in DOMAIN fs /\ SidecarPath(set_type) \in DOMAIN fs

C9_Original ==
  pc = "done" =>
    \A k \in DOMAIN InfoFileTypes :
      InfoPath("input_dir", dataset_name, InfoFileTypes[k]) \in DOMAIN fs =>
        Path("dataset_dir", new_dataset_name \o <<InfoFileTypes[k], ".info">>)
          \in DOMAIN fs

\* ------------------------------------------------------------ C10
\* C10 (as stated): the solution file is written where it is later moved
\* from, so when the run is done it is in the dataset root directory and no
\* solution file is left in the test directory.
C10_Original ==
  /\ pc = "move_solution" =>
       TestSolutionPath = Path("test", <<dataset_name, ".solution">>)
  /\ pc = "done" =>
       /\ Path("dataset_dir", new_dataset_name \o <<".solution">>) \in DOMAIN fs
       /\ \A q \in SolutionPaths : dirname(q) # "test"

\* ------------------------------------------------------------ C11
SparseLists == {"sparse_col_index", "sparse_row_index", "sparse_value"}

\* C11: for every split whose write is complete (its sidecar is on disk), the
\* sidecar's format is DENSE or SPARSE, and every record of the split carries
\* the three sparse lists exactly when the sidecar says SPARSE and a
\* dense_input list of frames exactly when it says DENSE.  The flag comes from
\* D.info['format'], the encoding from the type of the feature matrix; the
\* DataManager loads scipy.sparse matrices exactly when the format is not
\* 'dense'.
C11_SidecarFormatMatchesPayload ==
  \A s \in {"test", "train"} :
    SplitWritten(s) =>
      /\ Sidecar(s).format \in {"DENSE", "SPARSE"}
      /\ \A i \in DOMAIN Records(s) :
           LET keys == DOMAIN Records(s)[i].feature_lists
           IN /\ Sidecar(s).format = "SPARSE" <=> keys = SparseLists
              /\ Sidecar(s).format = "DENSE" <=> keys = {"dense_input"}

\* A finished run with non-empty sparse splits under a SPARSE sidecar.
C11_Witness ==
  /\ pc = "done"
  /\ Sidecar("test").format = "SPARSE"
  /\ Sidecar("train").format = "SPARSE"
  /\ Len(Records("test")) >= 1
  /\ Len(Records("train")) >= 1
  /\ DOMAIN Records("train")[1].feature_lists = SparseLists

====
